---- MODULE Spec2Model ----
(***************************************************************************)
(* Behavior scorecard: the Power BI scoring script (Powerbi_predict.py)    *)
(* and the Streamlit dashboard (app.py).                                   *)
(*                                                                         *)
(* Representation of the floating-point quantities:                        *)
(*   - a PD is an integer number of 1/PDScale (0.0001) units;              *)
(*   - a score, and the constants A and B, are integers in 1/ScoreScale    *)
(*     (0.0001 point) units, rounded to nearest;                           *)
(*   - a natural logarithm is an integer in 1/LnScale (1e-8) units,        *)
(*     computed by range reduction and the atanh series;                   *)
(*   - +inf (numpy's result for A - B*log(0.0)) is the value Inf, larger   *)
(*     than every finite score.                                            *)
(***************************************************************************)
EXTENDS Integers, Sequences, FiniteSets, TLC

VARIABLES
  \* Powerbi_predict.py
  model_file,      \* whether behavior_model.pkl exists
  scaler_file,     \* <<the scaler pickled in scaler.pkl>>, or <<>> without file
  _model,          \* module global _model
  _scaler,         \* module global _scaler
  bi_pc,           \* "import" | "ready" | "FileNotFoundError" | "returned"
  heap,            \* data frames by reference
  dataset,         \* reference of the caller's data frame
  dataset_out,     \* reference of the returned data frame, 0 before the return
  X_values,        \* the matrix handed to predict_proba, <<>> before the call
  \* app.py, one run of the script
  uploaded_file,   \* <<>> (None) or the uploaded CSV (a sequence of rows)
  df,              \* the data frame read from the upload
  app_pc,          \* position in the script
  ui,              \* the elements rendered so far in this run
  user_inputs,     \* <<value of the sidebar number_input>>, or <<>>
  pd_pred,         \* sidebar prediction: <<PD>>, or <<>>
  behavior_score,  \* sidebar prediction: <<score>>, or <<>>
  risk,            \* sidebar prediction: label, or None
  kpi,             \* <<the three KPI values>>, or <<>>
  \* the score transforms and label lookups applied to chosen arguments
  pd1, pd2,        \* two PD arguments
  fn_pc,           \* "input" | "scored" | "ZeroDivisionError" | "labelled"
  bi_scores,       \* <<compute_score(pd1), compute_score(pd2)>>
  app_scores,      \* <<calculate_behavior_score(pd1), ...(pd2)>>
  bi_cats,         \* Risk_Category lambda on bi_scores
  app_cats,        \* risk_category on app_scores
  score_in,        \* a score handed to the three label lookups
  labels,          \* their three answers
  \* history
  odds_of          \* the PD values from which odds p/(1-p) were computed

biVars  == <<model_file, scaler_file, _model, _scaler, bi_pc, heap, dataset,
             dataset_out, X_values>>
appVars == <<uploaded_file, df, app_pc, ui, user_inputs, pd_pred,
             behavior_score, risk, kpi>>
fnVars  == <<pd1, pd2, fn_pc, bi_scores, app_scores, bi_cats, app_cats,
             score_in, labels>>
vars    == <<biVars, appVars, fnVars, odds_of>>

-----------------------------------------------------------------------------
(* Units and bounds *)

PDScale    == 10^4
ScoreScale == 10^4
LnScale    == 10^8
Inf        == 2^30

MaxRows    == 2     \* rows of a data frame
GridStep   == 500   \* spacing of the PD arguments between the two edges
EdgeWidth  == 12    \* PD arguments 0..EdgeWidth and PDScale-EdgeWidth..PDScale

None   == "None"

Max(a, b) == IF a >= b THEN a ELSE b
Min(a, b) == IF a <= b THEN a ELSE b

-----------------------------------------------------------------------------
(* Fixed-point arithmetic within 31 bits, for non-negative operands *)

\* a*b/LnScale rounded to nearest, for 0 <= a, b < 10^9 (the halves keep
\* every intermediate product below 2^31)
MulFix(a, b) ==
  LET H   == 10^4
      a1  == a \div H
      a0  == a % H
      b1  == b \div H
      b0  == b % H
      m   == a1 * b0 + a0 * b1
      low == a0 * b0
  IN a1 * b1 + m \div H + ((m % H) * H + low + LnScale \div 2) \div LnScale

\* the k decimal digits of r/c after the point, the last rounded to nearest,
\* for 0 <= r < c < 2*10^8 (long division)
RECURSIVE DivDigits(_, _, _)
DivDigits(r, c, k) ==
  IF k = 0 THEN (IF 2 * r >= c THEN 1 ELSE 0)
  ELSE ((10 * r) \div c) * 10^(k - 1) + DivDigits((10 * r) % c, c, k - 1)

\* a*LnScale/c rounded to nearest
DivFix(a, c) == (a \div c) * LnScale + DivDigits(a % c, c, 8)

\* z + z^3/3 + z^5/5 + ... : pow is the current odd power of z, zz is z^2
RECURSIVE AtanhSeries(_, _, _, _)
AtanhSeries(pow, zz, k, n) ==
  IF n = 0 \/ pow = 0 THEN 0
  ELSE (pow + k \div 2) \div k
       + AtanhSeries(MulFix(pow, zz), zz, k + 2, n - 1)

\* 2*atanh(z) = ln((1+z)/(1-z)), 0 <= z <= 1/3
Atanh2(z) == 2 * AtanhSeries(z, MulFix(z, z), 1, 12)

LN2 == Atanh2(DivFix(1, 3))

RECURSIVE Pow2Below(_, _)
Pow2Below(n, p) == IF 2 * p > n THEN p ELSE Pow2Below(n, 2 * p)

RECURSIVE Log2Exact(_)
Log2Exact(p) == IF p = 1 THEN 0 ELSE 1 + Log2Exact(p \div 2)

\* ln(n) for an integer n >= 1: n = 2^e * m, 1 <= m < 2,
\* ln(n) = e*ln(2) + 2*atanh((m-1)/(m+1))
LnNat(n) ==
  LET p == Pow2Below(n, 1)
  IN Log2Exact(p) * LN2 + Atanh2(DivFix(n - p, n + p))

\* math.log / np.log of a positive ratio num/den
log(odds) == LnNat(odds.num) - LnNat(odds.den)

\* b * l for a constant b in score units and a logarithm l
MulLn(b, l) ==
  IF l >= 0 THEN MulFix(b, l) ELSE -MulFix(b, -l)

\* a/n rounded to nearest (a mean of n values)
RoundDiv(a, n) == (2 * a + n) \div (2 * n)

-----------------------------------------------------------------------------
(* Powerbi_predict.py: constants and compute_score *)

SCORE_REF == 600
PDO       == 20
ODDS      == 20

\* fault: PDO multiplied by ln(2) instead of divided
bi_B_TimesLn2 == MulFix(PDO * ScoreScale, LN2)
bi_B == DivFix(PDO * ScoreScale, LN2)

\* fault: the offset B*ln(ODDS) left out
bi_A_NoOffset == SCORE_REF * ScoreScale
bi_A == SCORE_REF * ScoreScale + MulLn(bi_B, LnNat(ODDS))

PD_MIN == 10      \* 0.001
PD_MAX == 9990    \* 0.999

clamp(pd) == Max(PD_MIN, Min(PD_MAX, pd))

\* fault: the log-odds term added instead of subtracted
compute_score_PlusLog(pd) ==
  LET p    == clamp(pd)
      odds == [num |-> p, den |-> PDScale - p]
  IN bi_A + MulLn(bi_B, log(odds))
compute_score(pd) ==
  LET p    == clamp(pd)
      odds == [num |-> p, den |-> PDScale - p]
  IN bi_A - MulLn(bi_B, log(odds))

\* fault: the dashboard's cut point 580 used for Medium
BiRiskCategory_Cut580(s) ==
  IF s >= 700 * ScoreScale THEN "Low"
  ELSE IF s >= 580 * ScoreScale THEN "Medium" ELSE "High"
BiRiskCategory(s) ==
  IF s >= 700 * ScoreScale THEN "Low"
  ELSE IF s >= 600 * ScoreScale THEN "Medium" ELSE "High"

-----------------------------------------------------------------------------
(* app.py: constants, calculate_behavior_score and the label lookups *)

app_A == 6864386   \* 686.4385618977473
app_B == 288539    \* 28.85390081777927

\* pd_value / (1 - pd_value) raises ZeroDivisionError when pd_value = 1.0
ZeroDivision(pd_value) == PDScale - pd_value = 0

\* defined for 0 <= pd_value < 1; np.log(0.0) is -inf and the score +inf
calculate_behavior_score(pd_value) ==
  IF pd_value = 0 THEN Inf
  ELSE app_A - MulLn(app_B, log([num |-> pd_value, den |-> PDScale - pd_value]))

\* fault: <= in place of <
risk_category_Inclusive(score) ==
  IF score <= 580 * ScoreScale THEN "High Risk"
  ELSE IF score <= 700 * ScoreScale THEN "Medium Risk"
  ELSE "Low Risk"
risk_category(score) ==
  IF score < 580 * ScoreScale THEN "High Risk"
  ELSE IF score < 700 * ScoreScale THEN "Medium Risk"
  ELSE "Low Risk"

SidebarRisk(score) ==
  IF score < 580 * ScoreScale THEN "High Risk"
  ELSE IF score < 700 * ScoreScale THEN "Medium Risk"
  ELSE "Low Risk"

SIDEBAR_MIN == 100    \* 0.01
SIDEBAR_MAX == 9900   \* 0.99

\* heading "Behavior Score Distribution (300-900)"
SCORE_LO == 300
SCORE_HI == 900

-----------------------------------------------------------------------------
(* Data frames: a sequence of rows, each a function from column names *)

Columns(frame) == DOMAIN frame[1]

\* frame[col] = vals
SetColumn(frame, col, vals) ==
  [i \in 1..Len(frame) |->
     [c \in DOMAIN frame[i] \cup {col} |->
        IF c = col THEN vals[i] ELSE frame[i][c]]]

Column(frame, col) == [i \in 1..Len(frame) |-> frame[i][col]]

RECURSIVE SumSeq(_)
SumSeq(s) == IF s = <<>> THEN 0 ELSE Head(s) + SumSeq(Tail(s))

\* every frame of 1..MaxRows rows drawn from rows
Frames(rows) == UNION {[1..n -> rows] : n \in 1..MaxRows}

-----------------------------------------------------------------------------
(* Powerbi_predict.py: module import and powerbi_predict *)

FeatureCols == <<"feature_1", "feature_2">>
FeatureVals == {0, 1}
ScaledVals  == {-1, 0, 1}
\* a fitted scaler, by what its transform does to a feature value: it keeps
\* the order of the values
Scalers     == {f \in [FeatureVals -> ScaledVals] : f[0] < f[1]}
\* the probabilities predict_proba may answer
BiPDs       == {0, 5, 5000, 10000}

Datasets ==
  Frames([{FeatureCols[j] : j \in 1..Len(FeatureCols)} -> FeatureVals])

\* DataFrame.values: the rows as vectors, in column order
values(frame) ==
  [i \in 1..Len(frame) |->
     [j \in 1..Len(FeatureCols) |-> frame[i][FeatureCols[j]]]]

\* scaler.transform
transform(scaler, matrix) ==
  [i \in 1..Len(matrix) |->
     [j \in 1..Len(matrix[i]) |-> scaler[matrix[i][j]]]]

\* DataFrame.copy(): a new frame, equal to the one copied
\* fault: no copy, the same frame under another name
copy_Alias(h, r) == [heap |-> h, ref |-> r]
copy(h, r) == [heap |-> Append(h, h[r]), ref |-> Len(h) + 1]

\* frame[col] = vals, on the frame that r refers to
setitem(h, r, col, vals) == [h EXCEPT ![r] = SetColumn(h[r], col, vals)]

BiIdle ==
  /\ model_file = FALSE /\ scaler_file = <<>>
  /\ _model = None /\ _scaler = <<>>
  /\ bi_pc = "off" /\ heap = <<>> /\ dataset = 0 /\ dataset_out = 0
  /\ X_values = <<>>

BiInit ==
  /\ model_file \in BOOLEAN
  /\ scaler_file \in {<<>>} \cup {<<f>> : f \in Scalers}
  /\ _model = None /\ _scaler = <<>>
  /\ bi_pc = "import"
  /\ \E d \in Datasets : heap = <<d>>
  /\ dataset = 1 /\ dataset_out = 0
  /\ X_values = <<>>

\* fault: a missing model file does not raise
ImportModule_NoRaise ==
  /\ bi_pc = "import"
  /\ _model' = IF model_file THEN "model" ELSE None
  /\ _scaler' = scaler_file
  /\ bi_pc' = "ready"
  /\ UNCHANGED <<model_file, scaler_file, heap, dataset, dataset_out,
                 X_values, appVars, fnVars, odds_of>>
\* lines 30-52: the module's top level
ImportModule ==
  /\ bi_pc = "import"
  /\ IF model_file
       THEN /\ _model' = "model"
            /\ _scaler' = scaler_file
            /\ bi_pc' = "ready"
       ELSE /\ _model' = None
            /\ _scaler' = <<>>
            /\ bi_pc' = "FileNotFoundError"
  /\ UNCHANGED <<model_file, scaler_file, heap, dataset, dataset_out,
                 X_values, appVars, fnVars, odds_of>>

\* lines 57-77: powerbi_predict(dataset), pd_probs being predict_proba's answer
predict(h, ds, scaler, pd_probs) ==
  LET X      == copy(h, ds)
      Xv     == IF scaler # <<>>
                  THEN transform(scaler[1], values(X.heap[X.ref]))
                  ELSE values(X.heap[X.ref])
      out    == copy(X.heap, ds)
      h1     == setitem(out.heap, out.ref, "PD", pd_probs)
      h2     == setitem(h1, out.ref, "Behavior_Score",
                        [i \in 1..Len(pd_probs) |-> compute_score(pd_probs[i])])
      h3     == setitem(h2, out.ref, "Risk_Category",
                        [i \in 1..Len(pd_probs) |->
                           BiRiskCategory(h2[out.ref][i]["Behavior_Score"])])
  IN [heap |-> h3, dataset_out |-> out.ref, X_values |-> Xv]

powerbi_predict ==
  /\ bi_pc = "ready"
  /\ \E pd_probs \in [1..Len(heap[dataset]) -> BiPDs] :
       LET r == predict(heap, dataset, _scaler, pd_probs)
       IN /\ heap' = r.heap
          /\ dataset_out' = r.dataset_out
          /\ X_values' = r.X_values
          /\ odds_of' = odds_of \cup {clamp(pd_probs[i]) : i \in DOMAIN pd_probs}
  /\ bi_pc' = "returned"
  /\ UNCHANGED <<model_file, scaler_file, _model, _scaler, dataset,
                 appVars, fnVars>>

BiNext == ImportModule \/ powerbi_predict

-----------------------------------------------------------------------------
(* app.py: one run of the script per user interaction *)

AppPDs == {0, 5, 3000, 9600, 10000}
XVals  == {0, 40}

RowsPD  == [{"PD"} -> AppPDs]
RowsPDx == {r \in [{"PD", "x"} -> AppPDs \cup XVals] :
              r["PD"] \in AppPDs /\ r["x"] \in XVals}
RowsX   == [{"x"} -> XVals]

\* the uploads: no file (<<>>), or a CSV with or without a PD column
Uploads == {<<>>} \cup Frames(RowsPD) \cup Frames(RowsPDx) \cup Frames(RowsX)

RECURSIVE SeqMax(_)
SeqMax(s) == IF Len(s) = 1 THEN s[1] ELSE Max(Head(s), SeqMax(Tail(s)))
RECURSIVE SeqMin(_)
SeqMin(s) == IF Len(s) = 1 THEN s[1] ELSE Min(Head(s), SeqMin(Tail(s)))

mean(s) == RoundDiv(SumSeq(s), Len(s))

\* mean of a score column: +inf as soon as one score is +inf
mean_score(s) ==
  IF \E i \in DOMAIN s : s[i] = Inf THEN Inf ELSE mean(s)

AppIdle ==
  /\ uploaded_file = <<>> /\ df = <<>> /\ app_pc = "off" /\ ui = {}
  /\ user_inputs = <<>> /\ pd_pred = <<>> /\ behavior_score = <<>>
  /\ risk = None /\ kpi = <<>>

AppInit ==
  /\ uploaded_file = <<>>
  /\ df = <<>> /\ app_pc = "start" /\ ui = {}
  /\ user_inputs = <<>> /\ pd_pred = <<>> /\ behavior_score = <<>>
  /\ risk = None /\ kpi = <<>>

\* fault: st.stop() left out after the error
AppUpload_NoStop ==
  /\ app_pc = "start"
  /\ \E file \in Uploads :
       /\ uploaded_file' = file
       /\ df' = file
       /\ ui' = {"header", "file_uploader", "sidebar_header"}
                \cup (IF file # <<>> /\ "PD" \notin Columns(file)
                        THEN {"error"} ELSE {})
       /\ app_pc' = IF file = <<>> THEN "main" ELSE "sidebar"
  /\ UNCHANGED <<user_inputs, pd_pred, behavior_score, risk,
                 kpi, biVars, fnVars, odds_of>>
\* lines 18-47: page header, file uploader (whose answer is this run's
\* upload), sidebar header, read_csv, PD guard
AppUpload ==
  /\ app_pc = "start"
  /\ \E file \in Uploads :
       /\ uploaded_file' = file
       /\ df' = file
       /\ IF file = <<>>
            THEN /\ ui' = {"header", "file_uploader", "sidebar_header"}
                 /\ app_pc' = "main"
            ELSE IF "PD" \notin Columns(file)
              THEN /\ ui' = {"header", "file_uploader", "sidebar_header",
                             "error"}
                   /\ app_pc' = "stopped"
              ELSE /\ ui' = {"header", "file_uploader", "sidebar_header"}
                   /\ app_pc' = "sidebar"
  /\ UNCHANGED <<user_inputs, pd_pred, behavior_score, risk,
                 kpi, biVars, fnVars, odds_of>>

\* lines 49-94: the sidebar form and, when the button was clicked, the prediction
AppSidebar ==
  /\ app_pc = "sidebar"
  /\ LET feature_cols == Columns(df) \ {"PD"}
         n            == Len(df)
         xs           == Column(df, "x")
         choices      == IF "x" \in feature_cols
                           THEN {<<SeqMin(xs)>>, <<mean(xs)>>, <<SeqMax(xs)>>}
                           ELSE {<<>>}
     IN \E v \in choices, clicked \in BOOLEAN :
          /\ user_inputs' = v
          /\ IF clicked
               THEN LET raw  == IF v = <<>>
                                  THEN mean(Column(df, "PD"))
                                  ELSE RoundDiv(SumSeq(Column(df, "PD"))
                                                + n * v[1] - SumSeq(xs), n)
                        p    == Max(Min(raw, SIDEBAR_MAX), SIDEBAR_MIN)
                        s    == calculate_behavior_score(p)
                    IN /\ pd_pred' = <<p>>
                       /\ behavior_score' = <<s>>
                       /\ risk' = SidebarRisk(s)
                       /\ odds_of' = odds_of \cup {p}
                       /\ ui' = ui \cup {"form", "prediction"}
               ELSE /\ UNCHANGED <<pd_pred, behavior_score, risk, odds_of>>
                    /\ ui' = ui \cup {"form"}
  /\ app_pc' = "main"
  /\ UNCHANGED <<uploaded_file, df, kpi, biVars, fnVars>>

\* lines 99-156: row scoring, labels, KPIs, charts and download, or the notice
AppMain ==
  /\ app_pc = "main"
  /\ IF uploaded_file = <<>>
       THEN /\ ui' = ui \cup {"info"}
            /\ app_pc' = "footer"
            /\ UNCHANGED <<df, kpi, odds_of>>
       ELSE LET pds == Column(df, "PD")
            IN IF \E i \in DOMAIN pds : ZeroDivision(pds[i])
                 THEN \* line 102 raises in the row that holds PD = 1.0
                      /\ app_pc' = "ZeroDivisionError"
                      /\ odds_of' = odds_of \cup
                           {pds[i] : i \in {j \in DOMAIN pds :
                               \A k \in 1..(j - 1) : ~ZeroDivision(pds[k])}}
                      /\ UNCHANGED <<df, kpi, ui>>
                 ELSE LET scores == [i \in DOMAIN pds |->
                                       calculate_behavior_score(pds[i])]
                          cats   == [i \in DOMAIN pds |->
                                       risk_category(scores[i])]
                      IN /\ df' = SetColumn(SetColumn(df, "Behavior_Score", scores),
                                            "Risk_Category", cats)
                         /\ kpi' = <<[avg_pd     |-> mean(pds),
                                      avg_score  |-> mean_score(scores),
                                      high_risk  |-> Cardinality(
                                         {i \in DOMAIN cats : cats[i] = "High Risk"})]>>
                         /\ ui' = ui \cup {"kpi", "hist_pd", "hist_score",
                                           "scatter", "download"}
                         /\ odds_of' = odds_of \cup {pds[i] : i \in DOMAIN pds}
                         /\ app_pc' = "footer"
  /\ UNCHANGED <<uploaded_file, user_inputs, pd_pred, behavior_score, risk,
                 biVars, fnVars>>

\* lines 158-164
AppFooter ==
  /\ app_pc = "footer"
  /\ ui' = ui \cup {"footer"}
  /\ app_pc' = "done"
  /\ UNCHANGED <<uploaded_file, df, user_inputs, pd_pred, behavior_score,
                 risk, kpi, biVars, fnVars, odds_of>>

\* a user interaction makes Streamlit run the script again from the top
AppRerun ==
  /\ app_pc \in {"done", "stopped", "ZeroDivisionError"}
  /\ uploaded_file' = <<>>
  /\ df' = <<>> /\ app_pc' = "start" /\ ui' = {}
  /\ user_inputs' = <<>> /\ pd_pred' = <<>> /\ behavior_score' = <<>>
  /\ risk' = None /\ kpi' = <<>>
  /\ odds_of' = {}
  /\ UNCHANGED <<biVars, fnVars>>

AppNext == AppUpload \/ AppSidebar \/ AppMain \/ AppFooter \/ AppRerun

-----------------------------------------------------------------------------
(* The two score transforms and the three label lookups on chosen arguments *)

\* the grid points on either side of the PDs whose odds are 0.625, 20 and 40
\* (scores 700, 600 and 580), and PD = 0.5
CutPDs == {3846, 3847, 5000, 9523, 9524, 9756, 9757}

PDInputs ==
  {p \in 0..PDScale : \/ p <= EdgeWidth
                      \/ p >= PDScale - EdgeWidth
                      \/ p % GridStep = 0}
  \cup CutPDs

\* scores at and next to the cut points and the ends of the nominal range
ScoreInputs ==
  {c * ScoreScale + d : c \in {SCORE_LO, 580, 600, 700, SCORE_HI},
                        d \in {-1, 0, 1}} \cup {Inf}

FnIdle ==
  /\ pd1 = 0 /\ pd2 = 0 /\ fn_pc = "off"
  /\ bi_scores = <<>> /\ app_scores = <<>>
  /\ bi_cats = <<>> /\ app_cats = <<>>
  /\ score_in = <<>> /\ labels = <<>>

FnInit ==
  /\ pd1 \in PDInputs /\ pd2 \in PDInputs
  /\ fn_pc = "input"
  /\ bi_scores = <<>> /\ app_scores = <<>>
  /\ bi_cats = <<>> /\ app_cats = <<>>
  /\ score_in = <<>> /\ labels = <<>>

\* both files score pd1 and pd2 and label the scores
ApplyTransforms ==
  /\ fn_pc = "input"
  /\ LET b == <<compute_score(pd1), compute_score(pd2)>>
     IN /\ bi_scores' = b
        /\ bi_cats' = <<BiRiskCategory(b[1]), BiRiskCategory(b[2])>>
  /\ IF ZeroDivision(pd1) \/ ZeroDivision(pd2)
       THEN /\ app_scores' = <<>>
            /\ app_cats' = <<>>
            /\ fn_pc' = "ZeroDivisionError"
            /\ odds_of' = {clamp(pd1), clamp(pd2)}
                          \cup (IF ZeroDivision(pd1) THEN {} ELSE {pd1})
       ELSE LET a == <<calculate_behavior_score(pd1),
                       calculate_behavior_score(pd2)>>
            IN /\ app_scores' = a
               /\ app_cats' = <<risk_category(a[1]), risk_category(a[2])>>
               /\ fn_pc' = "scored"
               /\ odds_of' = {clamp(pd1), clamp(pd2), pd1, pd2}
  /\ UNCHANGED <<pd1, pd2, score_in, labels, biVars, appVars>>

\* the three label lookups on one score
Categorise ==
  /\ fn_pc \in {"scored", "ZeroDivisionError"}
  /\ \E s \in ScoreInputs \cup {bi_scores[1]} :
       /\ score_in' = <<s>>
       /\ labels' = [bi      |-> BiRiskCategory(s),
                     row     |-> risk_category(s),
                     sidebar |-> SidebarRisk(s)]
  /\ fn_pc' = "labelled"
  /\ UNCHANGED <<pd1, pd2, bi_scores, app_scores, bi_cats, app_cats,
                 biVars, appVars, odds_of>>

FnNext == ApplyTransforms \/ Categorise

-----------------------------------------------------------------------------
(* Specifications: one per program, and their union *)

InitBI  == BiInit /\ AppIdle /\ FnIdle /\ odds_of = {}
InitApp == AppInit /\ BiIdle /\ FnIdle /\ odds_of = {}
InitFn  == FnInit /\ BiIdle /\ AppIdle /\ odds_of = {}

SpecBI  == InitBI /\ [][BiNext]_vars
SpecApp == InitApp /\ [][AppNext]_vars
SpecFn  == InitFn /\ [][FnNext]_vars

Init == InitBI \/ InitApp \/ InitFn
Next == BiNext \/ AppNext \/ FnNext
Spec == Init /\ [][Next]_vars

-----------------------------------------------------------------------------
(* Properties *)

\* both transforms have answered for pd1 and pd2
Scored == fn_pc \in {"scored", "labelled"} /\ app_scores # <<>>

\* the ordinal tier of a label of either file
Tier(label) ==
  CASE label \in {"High", "High Risk"}     -> 0
    [] label \in {"Medium", "Medium Risk"} -> 1
    [] label \in {"Low", "Low Risk"}       -> 2

InUnit(p) == 0 < p /\ p < PDScale

Abs(a) == IF a >= 0 THEN a ELSE -a

\* C1 as stated: for all PDs p1 < p2 in the open interval (0,1), compute_score
\* and calculate_behavior_score each give p1 a strictly greater score than p2.
C1_StrictlyDecreasingOnOpenUnit ==
  (Scored /\ InUnit(pd1) /\ InUnit(pd2) /\ pd1 < pd2)
    => /\ bi_scores[1] > bi_scores[2]
       /\ app_scores[1] > app_scores[2]

\* C1 amended: for p1 < p2 in (0,1), calculate_behavior_score is strictly
\* decreasing; compute_score never increases, and gives p1 and p2 the same
\* score exactly when the clamp maps them to the same value (both at most
\* 0.001 or both at least 0.999), so it is strictly decreasing on
\* [0.001, 0.999].
C1_DecreasingUpToClamp ==
  (Scored /\ InUnit(pd1) /\ InUnit(pd2) /\ pd1 < pd2)
    => /\ app_scores[1] > app_scores[2]
       /\ bi_scores[1] >= bi_scores[2]
       /\ (bi_scores[1] = bi_scores[2]) <=> (pd2 <= PD_MIN \/ pd1 >= PD_MAX)

C1_Witness ==
  /\ Scored /\ PD_MIN <= pd1 /\ pd1 < pd2 /\ pd2 <= PD_MAX
  /\ bi_scores[1] > bi_scores[2]
  /\ app_scores[1] > app_scores[2]

\* C2 as stated: on every scoring path the PD from which the odds p/(1-p) are
\* computed lies in [0.001, 0.999], so no odds are 0 or infinite and no
\* division by zero happens.
C2_OddsFromClampedPD ==
  /\ \A p \in odds_of : PD_MIN <= p /\ p <= PD_MAX
  /\ app_pc # "ZeroDivisionError"

\* C3 as stated: compute_score(0.5) = SCORE_REF.
C3_HalfGivesScoreRef ==
  (Scored /\ 2 * pd1 = PDScale) => bi_scores[1] = SCORE_REF * ScoreScale

\* C3 amended: compute_score(0.5) = A = SCORE_REF + B*ln(ODDS), which is above
\* SCORE_REF; SCORE_REF is the score of odds = ODDS (PD = 20/21): compute_score
\* is above SCORE_REF for PDs with odds below ODDS and below it for PDs with
\* odds above ODDS.
C3_HalfGivesA ==
  Scored =>
    /\ 2 * pd1 = PDScale =>
         bi_scores[1] = bi_A /\ bi_A > SCORE_REF * ScoreScale
    /\ pd1 < ODDS * (PDScale - pd1) => bi_scores[1] > SCORE_REF * ScoreScale
    /\ pd1 > ODDS * (PDScale - pd1) => bi_scores[1] < SCORE_REF * ScoreScale

C3_Witness ==
  Scored /\ 2 * pd1 = PDScale /\ bi_scores[1] = bi_A

\* C4: each lookup gives every score exactly one of three labels, by the cut
\* points 600 and 700 in the BI script and 580 and 700 in the dashboard, the
\* labels rise with the score (High < Medium < Low), and the dashboard's
\* sidebar lookup agrees with risk_category on every score.
C4_ThreeBuckets ==
  /\ fn_pc = "labelled" =>
       LET s == score_in[1]
       IN /\ labels.bi \in {"Low", "Medium", "High"}
          /\ labels.bi = "Low" <=> s >= 700 * ScoreScale
          /\ labels.bi = "Medium" <=>
               (600 * ScoreScale <= s /\ s < 700 * ScoreScale)
          /\ labels.bi = "High" <=> s < 600 * ScoreScale
          /\ labels.row \in {"Low Risk", "Medium Risk", "High Risk"}
          /\ labels.row = "Low Risk" <=> s >= 700 * ScoreScale
          /\ labels.row = "Medium Risk" <=>
               (580 * ScoreScale <= s /\ s < 700 * ScoreScale)
          /\ labels.row = "High Risk" <=> s < 580 * ScoreScale
          /\ labels.sidebar = labels.row
  /\ Scored =>
       /\ bi_scores[1] <= bi_scores[2] => Tier(bi_cats[1]) <= Tier(bi_cats[2])
       /\ app_scores[1] <= app_scores[2] =>
            Tier(app_cats[1]) <= Tier(app_cats[2])

C4_Witness ==
  /\ fn_pc = "labelled" /\ score_in = <<580 * ScoreScale>>
  /\ labels.bi = "High" /\ labels.row = "Medium Risk"
  /\ labels.sidebar = "Medium Risk"

\* C5 as stated: the A and B derived in the BI script differ from the A and B
\* of the dashboard, so the two files give the same PD different scores.
C5_ConstantsDiffer ==
  Scored => /\ bi_A # app_A
            /\ bi_B # app_B
            /\ bi_scores[1] # app_scores[1]

\* C5 amended: the A and B derived in the BI script equal the A and B of the
\* dashboard, so the two files give the same score to every PD in
\* [0.001, 0.999]; the scores differ only for a PD outside it, which only the
\* BI script clamps (the dashboard's score is higher below 0.001, +inf at 0,
\* and lower above 0.999).
C5_ConstantsAgree ==
  Scored =>
    /\ bi_A = app_A
    /\ bi_B = app_B
    /\ (PD_MIN <= pd1 /\ pd1 <= PD_MAX) => bi_scores[1] = app_scores[1]
    /\ pd1 < PD_MIN => app_scores[1] > bi_scores[1]
    /\ pd1 > PD_MAX => app_scores[1] < bi_scores[1]
    /\ pd1 = 0 => app_scores[1] = Inf

C5_Witness ==
  /\ Scored /\ PD_MIN <= pd1 /\ pd1 <= PD_MAX /\ 2 * pd1 # PDScale
  /\ bi_scores[1] = app_scores[1]

\* C6 as stated: every Behavior_Score written by a row-scoring pass is finite
\* and within 300..900, in the BI script and in the dashboard.
C6_ScoreWithinNominalRange ==
  /\ bi_pc = "returned" =>
       \A i \in DOMAIN heap[dataset_out] :
         LET s == heap[dataset_out][i]["Behavior_Score"]
         IN s # Inf /\ SCORE_LO * ScoreScale <= s /\ s <= SCORE_HI * ScoreScale
  /\ kpi # <<>> =>
       \A i \in DOMAIN df :
         LET s == df[i]["Behavior_Score"]
         IN s # Inf /\ SCORE_LO * ScoreScale <= s /\ s <= SCORE_HI * ScoreScale

\* C7: without behavior_model.pkl the import raises FileNotFoundError and
\* powerbi_predict is never defined or run, so whenever predict_proba is
\* called the model is loaded; without scaler.pkl the import succeeds and
\* predict_proba receives dataset.values untransformed.
C7_ModelRequiredScalerOptional ==
  /\ bi_pc \in {"ready", "returned"} => model_file /\ _model # None
  /\ X_values # <<>> => _model # None
  /\ (bi_pc \notin {"off", "import"} /\ ~model_file) =>
       /\ bi_pc = "FileNotFoundError"
       /\ _model = None
       /\ dataset_out = 0
       /\ X_values = <<>>
  /\ (bi_pc \notin {"off", "import"} /\ model_file) =>
       bi_pc # "FileNotFoundError"
  /\ (bi_pc = "returned" /\ scaler_file = <<>>) =>
       /\ _scaler = <<>>
       /\ dataset_out # 0
       /\ X_values = values(heap[dataset])

C7_Witness ==
  bi_pc = "FileNotFoundError" /\ ~model_file /\ _model = None

HaltedResults ==
  {"form", "prediction", "kpi", "hist_pd", "hist_score", "scatter", "download"}

\* C8: a CSV without a PD column makes the run show the error and stop: no
\* sidebar form, no prediction, no Behavior_Score or Risk_Category column, no
\* KPI, chart or download button (nor the notice or the footer). Without any
\* upload nothing is scored and, of the result elements, only the notice is
\* shown.
C8_MissingPDHalts ==
  /\ (app_pc \notin {"off", "start"} /\ uploaded_file # <<>>
      /\ "PD" \notin Columns(uploaded_file)) =>
       /\ app_pc = "stopped"
       /\ "error" \in ui
       /\ ui \cap (HaltedResults \cup {"info", "footer"}) = {}
       /\ df = uploaded_file
       /\ pd_pred = <<>> /\ behavior_score = <<>> /\ risk = None
       /\ kpi = <<>>
       /\ odds_of = {}
  /\ (app_pc \notin {"off", "start"} /\ uploaded_file = <<>>) =>
       /\ app_pc \in {"main", "footer", "done"}
       /\ ui \cap (HaltedResults \cup {"error"}) = {}
       /\ app_pc \in {"footer", "done"} => "info" \in ui
       /\ df = <<>>
       /\ pd_pred = <<>> /\ behavior_score = <<>> /\ risk = None
       /\ kpi = <<>>
       /\ odds_of = {}
  /\ (app_pc \notin {"off", "start"} /\ uploaded_file # <<>>
      /\ "PD" \in Columns(uploaded_file)) =>
       "error" \notin ui /\ "info" \notin ui /\ app_pc # "stopped"

C8_Witness ==
  /\ app_pc = "stopped" /\ "error" \in ui
  /\ uploaded_file # <<>> /\ "PD" \notin Columns(uploaded_file)

OutputCols == {"PD", "Behavior_Score", "Risk_Category"}

\* C9: a call of powerbi_predict leaves the caller's dataset as it was and
\* returns another frame with the same rows in the same order, the same input
\* columns with the same values, and exactly the three columns PD,
\* Behavior_Score = compute_score(PD) and Risk_Category = the label of
\* Behavior_Score added.
C9_AugmentedCopy ==
  [][bi_pc' = "returned" =>
       LET in  == heap[dataset]
           now == heap'[dataset']
           out == heap'[dataset_out']
       IN /\ dataset' = dataset
          /\ now = in
          /\ dataset_out' # dataset'
          /\ Len(out) = Len(in)
          /\ \A i \in DOMAIN in :
               /\ DOMAIN out[i] = DOMAIN in[i] \cup OutputCols
               /\ DOMAIN in[i] \cap OutputCols = {}
               /\ \A c \in DOMAIN in[i] : out[i][c] = in[i][c]
               /\ out[i]["PD"] \in 0..PDScale
               /\ out[i]["Behavior_Score"] = compute_score(out[i]["PD"])
               /\ out[i]["Risk_Category"] =
                    BiRiskCategory(out[i]["Behavior_Score"])]_vars

C9_Witness ==
  /\ bi_pc = "returned"
  /\ Len(heap[dataset_out]) = MaxRows
  /\ OutputCols \subseteq Columns(heap[dataset_out])
  /\ OutputCols \cap Columns(heap[dataset]) = {}

\* C10: for a PD in [0.001, 0.999] the two files give the same tier except
\* exactly when the score is in [580, 600), where the BI script says High and
\* the dashboard Medium Risk; for no PD are they more than one tier apart, and
\* one says Low exactly when the other says Low Risk.
C10_TiersAgreeExceptBand ==
  Scored =>
    LET tb     == Tier(bi_cats[1])
        ta     == Tier(app_cats[1])
        InBand(s) == 580 * ScoreScale <= s /\ s < 600 * ScoreScale
    IN /\ (PD_MIN <= pd1 /\ pd1 <= PD_MAX) =>
            /\ tb # ta <=> InBand(bi_scores[1])
            /\ tb # ta <=> InBand(app_scores[1])
            /\ tb # ta => bi_cats[1] = "High" /\ app_cats[1] = "Medium Risk"
       /\ Abs(tb - ta) <= 1
       /\ bi_cats[1] = "Low" <=> app_cats[1] = "Low Risk"

C10_Witness ==
  /\ Scored /\ PD_MIN <= pd1 /\ pd1 <= PD_MAX
  /\ bi_cats[1] = "High" /\ app_cats[1] = "Medium Risk"

====
